---- MODULE Spec2Model ----
(***************************************************************************)
(* Avellaneda-Stoikov grid bot: the quote computation and the per-tick      *)
(* grid adjustment of avellaneda_bot.py, and the parameter calibration of   *)
(* avellaneda_utils.py.                                                     *)
(*                                                                          *)
(* Floats are fixed-point integers: a value v stands for v / Scale.         *)
(* Quantities (positions, order sizes) and times (seconds) are plain        *)
(* integers.                                                                *)
(***************************************************************************)
EXTENDS Integers, Sequences, FiniteSets, TLC

\* ------------------------------------------------------------------ numbers
\* fixed-point unit: 1.0 is Scale
Scale == 100 * 100

\* the value None of Python, for a price that was never received
NoPrice == 0 - 1

Abs(x) == IF x < 0 THEN 0 - x ELSE x

Sign(x) == IF x < 0 THEN 0 - 1 ELSE 1

\* float division, rounded toward zero (b # 0)
TDiv(a, b) == Sign(a) * Sign(b) * (Abs(a) \div Abs(b))

\* product and quotient of two fixed-point values
Mul(a, b) == TDiv(a * b, Scale)

Div(a, b) == TDiv(a * Scale, b)

Max(a, b) == IF a >= b THEN a ELSE b

\* math.log(x) for x > 0, as 2*atanh((x-1)/(x+1)) summed to the z^11 term
Ln(x) ==
    LET z  == TDiv((x - Scale) * Scale, x + Scale)
        z2 == Mul(z, z)
        z3 == Mul(z, z2)
        z5 == Mul(z3, z2)
        z7 == Mul(z5, z2)
        z9 == Mul(z7, z2)
        z11 == Mul(z9, z2)
    IN  2 * (z + TDiv(z3, 3) + TDiv(z5, 5) + TDiv(z7, 7) + TDiv(z9, 9) + TDiv(z11, 11))

\* ---------------------------------------------------------------- constants
POSITION_THRESHOLD == 500
ORDER_COOLDOWN_TIME == 60
INITIAL_QUANTITY == 1
\* GRID_SPACING = 0.0006, in fixed-point units
GRID_SPACING == 6
\* AVE_GAMMA = 1.0 and AVE_T_END = 1, in whole units
AVE_GAMMA == 1
AVE_T_END == 1
\* Taker_Fee_Rate = 0.0005, K_calib = 0.05 and the default sigma 0.005, in
\* fixed-point units
Taker_Fee_Rate == 5
K_calib == 500
DEFAULT_SIGMA == 50

\* ------------------------------------------------------------------- bounds
\* prices of the feed are PriceStep, 2*PriceStep, .. NumPrices*PriceStep
NumPrices == 1
PriceStep == 50 * 100
\* the clock advances in steps of TimeStep seconds up to MaxTime
MaxTime == 60
TimeStep == ORDER_COOLDOWN_TIME
\* the candle table holds up to MaxCandles rows (720 in the program)
MaxCandles == 3

VARIABLES
    \* ModelParameters and the base engine's grid_spacing, set by __init__
    gamma, eta, sigma, T_end, grid_spacing,
    \* the engine's own quote fields
    reserve_price, inventory, best_bid, best_ask,
    upper_price_long, upper_price_short,
    lower_price_long, lower_price_short,
    mid_price_long, mid_price_short,
    \* what the last quote computation logged: its delta, and whether it
    \* logged the fallback (logger.error)
    delta, fallback_logged,
    \* state owned by the base engine
    long_position, short_position, latest_price,
    last_long_order_time, last_short_order_time,
    sell_long_orders, buy_short_orders,
    long_initial_quantity, short_initial_quantity,
    \* time.time()
    now,
    \* adjust_grid_strategy: position in the tick, its locals current_time and
    \* latest_price, the calls it made in order, the sides whose error it
    \* logged
    pc, current_time, tick_price, calls, errors,
    \* the arguments (price, long, short) of the last quote computation that
    \* returned
    last_args,
    \* auto_calculate_params: its argument taker_fee, its position, the
    \* outcome of the HTTP request, the close column of the candle table, the
    \* result and the exception that left it
    taker_fee, cal_pc, response, kline_df, AVE_SIGMA, AVE_ETA, raised

paramVars == <<gamma, eta, sigma, T_end, grid_spacing>>

quoteVars == <<reserve_price, inventory, best_bid, best_ask,
               upper_price_long, upper_price_short,
               lower_price_long, lower_price_short,
               mid_price_long, mid_price_short>>

logVars == <<delta, fallback_logged>>

extVars == <<long_position, short_position, latest_price,
             last_long_order_time, last_short_order_time,
             sell_long_orders, buy_short_orders,
             long_initial_quantity, short_initial_quantity>>

tickVars == <<pc, current_time, tick_price, calls, errors>>

calVars == <<taker_fee, cal_pc, response, kline_df, AVE_SIGMA, AVE_ETA, raised>>

vars == <<paramVars, quoteVars, logVars, extVars, now, tickVars, last_args, calVars>>

\* ------------------------------------------------------------- input sets
Prices == {k * PriceStep : k \in 1..NumPrices}

\* no position, one below the threshold, the threshold, one above it
Positions == {0, 1, POSITION_THRESHOLD, POSITION_THRESHOLD + 1}

GammaSet == {Scale, 2 * Scale}

EtaSet == {0 - 4 * Scale, 0 - 2 * Scale, 0 - Scale, 0, Scale, 100 * Scale}

SigmaSet == {0, 5 * 100, 10 * 100}

Sides == {"long", "short"}

\* --------------------------------------------------------- quote computation
\* gamma * sigma^2 * T
RiskTerm == Mul(Mul(gamma, Mul(sigma, sigma)), T_end)

\* 1 + gamma / eta (eta # 0)
LogArg == Scale + Div(gamma, eta)

\* lines 66-70: the formula raises ZeroDivisionError (1 / gamma, gamma / eta)
\* or ValueError (math.log of a non-positive number)
FormulaRaises == gamma = 0 \/ eta = 0 \/ LogArg <= 0

\* lines 67-69: term1 + term2
FormulaDelta == TDiv(RiskTerm, 2) + Mul(Div(Scale, gamma), Ln(LogArg))

\* line 72: grid_spacing * price * 0.5
FallbackDelta(price) == TDiv(Mul(grid_spacing, price), 2)

\* the fallback without its factor 0.5
CalcDeltaNoHalf(price) ==
    IF FormulaRaises THEN Mul(grid_spacing, price) ELSE FormulaDelta

\* the log term subtracted instead of added
CalcDeltaMinus(price) ==
    IF FormulaRaises THEN FallbackDelta(price)
    ELSE TDiv(RiskTerm, 2) - Mul(Div(Scale, gamma), Ln(LogArg))

\* lines 66-72
CalcDelta(price) == IF FormulaRaises THEN FallbackDelta(price) ELSE FormulaDelta

\* line 63
ReservePrice(price, inv) == price - inv * RiskTerm

\* no price protection
ClampNone(x) == x

\* lines 79-80: max(0.0, x)
Clamp(x) == Max(0, x)

\* _calculate_avellaneda_prices(price) with the positions lp, sp: the fields
\* it leaves. With price = None line 63 raises TypeError after line 56 ran.
calculate_avellaneda_prices(price, lp, sp) ==
    LET inv == lp - sp
        r   == ReservePrice(price, inv)
        d   == CalcDelta(price)
    IN  IF price = NoPrice
        THEN [raised |-> TRUE, inventory |-> inv, reserve_price |-> reserve_price,
              delta |-> delta, fallback |-> fallback_logged,
              best_bid |-> best_bid, best_ask |-> best_ask]
        ELSE [raised |-> FALSE, inventory |-> inv, reserve_price |-> r,
              delta |-> d, fallback |-> FormulaRaises,
              best_bid |-> Clamp(r - d), best_ask |-> Clamp(r + d)]

\* update_mid_price(side, price), lines 85-89; q is what line 86 computed
update_mid_price(q, price) ==
    /\ inventory' = q.inventory
    /\ reserve_price' = q.reserve_price
    /\ best_bid' = q.best_bid
    /\ best_ask' = q.best_ask
    /\ delta' = q.delta
    /\ fallback_logged' = q.fallback
    /\ IF q.raised
       THEN UNCHANGED <<upper_price_long, upper_price_short, lower_price_long,
                        lower_price_short, mid_price_long, mid_price_short,
                        last_args>>
       ELSE /\ last_args' = <<price, long_position, short_position>>
            /\ upper_price_long' = q.best_ask
            /\ upper_price_short' = q.best_ask
            /\ lower_price_long' = q.best_bid
            /\ lower_price_short' = q.best_bid
            /\ mid_price_long' = q.reserve_price
            /\ mid_price_short' = q.reserve_price

QuoteUnchanged == UNCHANGED <<quoteVars, logVars, last_args>>

\* ------------------------------------------------------------ initial state
\* AvellanedaGridBot.__init__, lines 40-47; the base engine's fields start
\* empty
InitQuote ==
    /\ reserve_price = 0 /\ inventory = 0 /\ best_bid = 0 /\ best_ask = 0
    /\ upper_price_long = 0 /\ upper_price_short = 0
    /\ lower_price_long = 0 /\ lower_price_short = 0
    /\ mid_price_long = 0 /\ mid_price_short = 0
    /\ delta = 0 /\ fallback_logged = FALSE
    /\ last_args = <<>>

InitEngine ==
    /\ long_position = 0 /\ short_position = 0
    /\ last_long_order_time = 0 /\ last_short_order_time = 0
    /\ sell_long_orders = 0 /\ buy_short_orders = 0
    /\ long_initial_quantity = INITIAL_QUANTITY
    /\ short_initial_quantity = INITIAL_QUANTITY
    /\ now = 0

InitTick ==
    /\ pc = "idle" /\ current_time = 0 /\ tick_price = 0
    /\ calls = <<>> /\ errors = <<>>

\* lines 15-16 of avellaneda_bot.py; Taker_Fee_Rate = 0.0005, line 14
InitCal ==
    /\ taker_fee = Taker_Fee_Rate
    /\ cal_pc = "start" /\ response = "none" /\ kline_df = <<>>
    /\ AVE_SIGMA = 0 /\ AVE_ETA = 0 /\ raised = "none"

\* ------------------------------------------------ the quote engine on its own
\* any ModelParameters of the data model: gamma > 0, sigma >= 0, T_end > 0
QInit ==
    /\ gamma \in GammaSet /\ eta \in EtaSet /\ sigma \in SigmaSet
    /\ T_end = AVE_T_END * Scale /\ grid_spacing = GRID_SPACING
    /\ InitQuote /\ InitEngine /\ InitTick /\ InitCal
    /\ latest_price = 0

\* the base engine books a fill
QPosition ==
    /\ \E lp \in Positions, sp \in Positions :
          long_position' = lp /\ short_position' = sp
    /\ UNCHANGED <<paramVars, quoteVars, logVars, latest_price,
                   last_long_order_time, last_short_order_time,
                   sell_long_orders, buy_short_orders,
                   long_initial_quantity, short_initial_quantity,
                   now, tickVars, last_args, calVars>>

\* line 56 assigning long_position instead of inventory
QUpdateWritesPosition ==
    /\ \E price \in {0} \cup Prices :
          update_mid_price(
              calculate_avellaneda_prices(price, long_position, short_position),
              price)
    /\ long_position' = long_position - short_position
    /\ UNCHANGED <<paramVars, short_position, latest_price,
                   last_long_order_time, last_short_order_time,
                   sell_long_orders, buy_short_orders,
                   long_initial_quantity, short_initial_quantity,
                   now, tickVars, calVars>>

\* a call of update_mid_price with a price of the feed: lines 50-89 assign
\* the quote fields and nothing else
QUpdate ==
    /\ \E price \in {0} \cup Prices :
          update_mid_price(
              calculate_avellaneda_prices(price, long_position, short_position),
              price)
    /\ UNCHANGED <<paramVars, extVars, now, tickVars, calVars>>

QNext == QPosition \/ QUpdate

QuoteSpec == QInit /\ [][QNext]_vars

\* ------------------------------------------------------------ the base engine
\* The base engine (GridTradingBot) owns the positions, the price feed, the
\* resting order counts and the last order times, and changes them between
\* ticks.
EngineFrame == UNCHANGED <<paramVars, quoteVars, logVars, tickVars, last_args, calVars>>

\* a fill changes a position
EngineFill ==
    /\ pc = "idle"
    /\ \E s \in Sides, p \in Positions :
          IF s = "long"
          THEN long_position' = p /\ UNCHANGED short_position
          ELSE short_position' = p /\ UNCHANGED long_position
    /\ UNCHANGED <<latest_price, last_long_order_time, last_short_order_time,
                   sell_long_orders, buy_short_orders,
                   long_initial_quantity, short_initial_quantity, now>>
    /\ EngineFrame

\* a ticker message
EngineTicker ==
    /\ pc = "idle"
    /\ latest_price' \in Prices
    /\ UNCHANGED <<long_position, short_position,
                   last_long_order_time, last_short_order_time,
                   sell_long_orders, buy_short_orders,
                   long_initial_quantity, short_initial_quantity, now>>
    /\ EngineFrame

\* an order update: a side's take-profit order rests or is gone, and an
\* order placed on a side stamps that side's last order time
EngineOrders ==
    /\ pc = "idle"
    /\ \E s \in Sides, n \in {0, 1}, stamp \in BOOLEAN :
          IF s = "long"
          THEN /\ sell_long_orders' = n
               /\ last_long_order_time' = IF stamp THEN now ELSE last_long_order_time
               /\ UNCHANGED <<buy_short_orders, last_short_order_time>>
          ELSE /\ buy_short_orders' = n
               /\ last_short_order_time' = IF stamp THEN now ELSE last_short_order_time
               /\ UNCHANGED <<sell_long_orders, last_long_order_time>>
    /\ UNCHANGED <<long_position, short_position, latest_price,
                   long_initial_quantity, short_initial_quantity, now>>
    /\ EngineFrame

\* time passes
Clock ==
    /\ pc = "idle"
    /\ now + TimeStep <= MaxTime
    /\ now' = now + TimeStep
    /\ UNCHANGED extVars
    /\ EngineFrame

\* ------------------------------------------------------- adjust_grid_strategy
Pos(s) == IF s = "long" THEN long_position ELSE short_position

LastOrderTime(s) ==
    IF s = "long" THEN last_long_order_time ELSE last_short_order_time

\* the side's resting take-profit orders: sell_long_orders, buy_short_orders
Resting(s) == IF s = "long" THEN sell_long_orders ELSE buy_short_orders

InitialQuantity(s) ==
    IF s = "long" THEN long_initial_quantity ELSE short_initial_quantity

\* the far quote price takes profit, the near one opens
Far(q, s) == IF s = "long" THEN q.best_ask ELSE q.best_bid

Near(q, s) == IF s = "long" THEN q.best_bid ELSE q.best_ask

\* a call, with the side it acts on and whether it returned (ok) or raised
Call(op, s, price, qty) ==
    [op |-> op, side |-> s, price |-> price, qty |-> qty, ok |-> TRUE]

\* both sides reading the long side's last order time
InCooldownLongTime(s) ==
    /\ Pos(s) > POSITION_THRESHOLD
    /\ current_time - last_long_order_time < ORDER_COOLDOWN_TIME

\* lines 144, 150: over the threshold and inside the cooldown
InCooldown(s) ==
    /\ Pos(s) > POSITION_THRESHOLD
    /\ current_time - LastOrderTime(s) < ORDER_COOLDOWN_TIME

\* a take-profit order whether or not one rests
AbovePlanAlways(s, q, qty) ==
    <<Call("place_take_profit_order", s, Far(q, s), qty)>>

\* lines 100-101, 120-121: over the threshold, a take-profit order unless one
\* rests
AbovePlan(s, q, qty) ==
    IF Resting(s) <= 0
    THEN <<Call("place_take_profit_order", s, Far(q, s), qty)>>
    ELSE <<>>

\* the cancel after the placements
BelowPlanCancelLast(s, q, qty) ==
    <<Call("place_take_profit_order", s, Far(q, s), qty),
      Call("place_order", s, Near(q, s), qty),
      Call("cancel_orders_for_side", s, 0, 0)>>

\* lines 103-105, 123-125: cancel, take profit, reopen
BelowPlan(s, q, qty) ==
    <<Call("cancel_orders_for_side", s, 0, 0),
      Call("place_take_profit_order", s, Far(q, s), qty),
      Call("place_order", s, Near(q, s), qty)>>

\* lines 96-105, 116-125: the calls place_*_orders makes after the quote, if
\* none raises
PlaceOrdersPlan(s, q, qty) ==
    <<Call("get_take_profit_quantity", s, 0, Pos(s))>> \o
    (IF Pos(s) > 0
     THEN IF Pos(s) > POSITION_THRESHOLD
          THEN AbovePlan(s, q, qty)
          ELSE BelowPlan(s, q, qty)
     ELSE <<>>)

\* the calls made when call n of the plan raises (n = Len(plan) + 1: none)
Issued(plan, n) ==
    [i \in 1..(IF n <= Len(plan) THEN n ELSE Len(plan)) |->
        [plan[i] EXCEPT !.ok = (i < n)]]

\* place_long_orders / place_short_orders, lines 92-130. Every exception is
\* caught and logged (lines 109-110, 129-130). get_take_profit_quantity sets
\* the side's order quantity.
place_orders(s) ==
    LET q == calculate_avellaneda_prices(tick_price, long_position, short_position)
        quoted == [Call("update_mid_price", s, tick_price, 0) EXCEPT !.ok = ~q.raised]
    IN  /\ update_mid_price(q, tick_price)
        /\ IF q.raised
           THEN /\ calls' = Append(calls, quoted)
                /\ errors' = Append(errors, s)
                /\ UNCHANGED <<long_initial_quantity, short_initial_quantity>>
           ELSE \E qty \in {INITIAL_QUANTITY, 2 * INITIAL_QUANTITY} :
                LET plan == PlaceOrdersPlan(s, q, qty)
                IN  \E n \in 1..(Len(plan) + 1) :
                      /\ n = 1 => qty = InitialQuantity(s)
                      /\ calls' = calls \o <<quoted>> \o Issued(plan, n)
                      /\ errors' = IF n <= Len(plan) THEN Append(errors, s) ELSE errors
                      /\ IF s = "long"
                         THEN /\ long_initial_quantity' = qty
                              /\ UNCHANGED short_initial_quantity
                         ELSE /\ short_initial_quantity' = qty
                              /\ UNCHANGED long_initial_quantity

\* lines 141-151: one side's branch of the tick; next is where the tick goes
\* on. initialize_*_orders is awaited outside any try: when it raises, the
\* exception leaves adjust_grid_strategy.
SideBranch(s, next) ==
    /\ pc = s
    /\ IF Pos(s) = 0
       THEN /\ \E ok \in BOOLEAN :
                /\ calls' = Append(calls, [Call("initialize", s, 0, 0) EXCEPT !.ok = ok])
                /\ pc' = IF ok THEN next ELSE "aborted"
            /\ UNCHANGED <<errors, long_initial_quantity, short_initial_quantity>>
            /\ QuoteUnchanged
       ELSE IF InCooldown(s)
            THEN /\ pc' = next
                 /\ UNCHANGED <<calls, errors, long_initial_quantity,
                                short_initial_quantity>>
                 /\ QuoteUnchanged
            ELSE /\ place_orders(s)
                 /\ pc' = next
    /\ UNCHANGED <<paramVars, long_position, short_position, latest_price,
                   last_long_order_time, last_short_order_time,
                   sell_long_orders, buy_short_orders, now,
                   current_time, tick_price, calVars>>

\* "is not None" in place of truthiness
PriceNotNone(p) == p # NoPrice

\* line 138: if latest_price
PriceTruthy(p) == p # NoPrice /\ p # 0

\* lines 134-139: check_and_reduce_positions (it may raise, and nothing
\* catches it), the tick's time and price, and the quote when the price is
\* truthy
TickStart ==
    /\ pc = "idle"
    /\ errors' = <<>>
    /\ \E ok \in BOOLEAN :
          LET checked == [Call("check_and_reduce_positions", "both", 0, 0) EXCEPT !.ok = ok]
              q == calculate_avellaneda_prices(latest_price, long_position, short_position)
          IN  IF ~ok
              THEN /\ pc' = "aborted"
                   /\ calls' = <<checked>>
                   /\ UNCHANGED <<current_time, tick_price>>
                   /\ QuoteUnchanged
              ELSE /\ pc' = "long"
                   /\ current_time' = now
                   /\ tick_price' = latest_price
                   /\ IF PriceTruthy(latest_price)
                      THEN /\ update_mid_price(q, latest_price)
                           /\ calls' = <<checked, Call("update_mid_price", "both", latest_price, 0)>>
                      ELSE /\ QuoteUnchanged
                           /\ calls' = <<checked>>
    /\ UNCHANGED <<paramVars, extVars, now, calVars>>

LongBranch == SideBranch("long", "short")

ShortBranch == SideBranch("short", "done")

\* adjust_grid_strategy returned or raised; its locals are gone
TickEnd ==
    /\ pc \in {"done", "aborted"}
    /\ pc' = "idle"
    /\ current_time' = 0 /\ tick_price' = 0
    /\ calls' = <<>> /\ errors' = <<>>
    /\ UNCHANGED <<paramVars, quoteVars, logVars, extVars, now, last_args, calVars>>

\* main(), lines 161-166: gamma and T_end are the module's constants; sigma
\* and eta are what the calibration returned
Init ==
    /\ gamma = AVE_GAMMA * Scale /\ T_end = AVE_T_END * Scale
    /\ sigma = 5 * 100 /\ eta = 100 * Scale
    /\ grid_spacing = GRID_SPACING
    /\ InitQuote /\ InitEngine /\ InitTick /\ InitCal
    /\ latest_price \in {NoPrice, 0}

Next ==
    \/ EngineFill \/ EngineTicker \/ EngineOrders \/ Clock
    \/ TickStart \/ LongBranch \/ ShortBranch \/ TickEnd

Spec == Init /\ [][Next]_vars

\* ------------------------------------------------------ parameter calibration
\* closes of the candles: 0.50, 0.55, 0.60
Closes == {50 * 100, 55 * 100, 60 * 100}

FeeSet == {0 - Taker_Fee_Rate, 0, Taker_Fee_Rate, 2 * Taker_Fee_Rate}

\* the sequences over S of length lo..hi
SeqsOf(S, lo, hi) == UNION {[1..n -> S] : n \in lo..hi}

\* what the HTTP request can end in
Responses ==
    {"network_error", "http_error", "malformed_json", "empty_array",
     "wrong_width", "non_numeric", "ok"}

\* get_gateio_kline, lines 19-45: what it returns or raises for a response.
\* Only requests.RequestException is caught (line 43): the errors of
\* requests.get, raise_for_status and response.json() (requests'
\* JSONDecodeError) are; the ValueError of pandas is not.
get_gateio_kline(resp, rows) ==
    CASE resp \in {"network_error", "http_error", "malformed_json"} ->
            [raised |-> "none", df |-> <<>>]
      \* lines 34-35
      [] resp = "empty_array" -> [raised |-> "none", df |-> <<>>]
      \* line 31: pd.DataFrame(data, columns=...) with rows of another width
      [] resp = "wrong_width" -> [raised |-> "ValueError", df |-> <<>>]
      \* lines 37-38: astype(float) on a field that is no number
      [] resp = "non_numeric" -> [raised |-> "ValueError", df |-> <<>>]
      [] resp = "ok" -> [raised |-> "none", df |-> rows]

RECURSIVE SumSeq(_)
SumSeq(q) == IF q = <<>> THEN 0 ELSE q[1] + SumSeq(Tail(q))

\* the square root of a fixed-point value v >= 0
Sqrt(v) == CHOOSE r \in 0..(2 * Scale) : r * r <= v * Scale /\ v * Scale < (r + 1) * (r + 1)

\* line 55: ln(close_i / close_{i-1})
LogReturns(df) == [i \in 1..(Len(df) - 1) |-> Ln(Div(df[i + 1], df[i]))]

\* calculate_historical_volatility, lines 48-60: the sample standard
\* deviation of the log returns; NaN (a single return) gives 0.0
calculate_historical_volatility(df) ==
    IF Len(df) < 2 THEN 0
    ELSE LET r    == LogReturns(df)
             k    == Len(r)
             mean == TDiv(SumSeq(r), k)
             sq   == [i \in 1..k |-> Mul(r[i] - mean, r[i] - mean)]
         IN  IF k < 2 THEN 0 ELSE Sqrt(TDiv(SumSeq(sq), k - 1))

\* estimate_eta_from_fee, lines 62-75
estimate_eta_from_fee(fee) == IF fee > 0 THEN Div(K_calib, fee) ELSE 500 * Scale

\* lines 89-90: sigma < 1e-5, a tenth of the fixed-point unit
TooSmall(v) == 10 * v < 1

\* line 83: the fetch; an exception of get_gateio_kline leaves
\* auto_calculate_params and main
CalFetch ==
    /\ cal_pc = "start"
    /\ \E resp \in Responses :
       \E rows \in (IF resp = "ok" THEN SeqsOf(Closes, 1, MaxCandles) ELSE {<<>>}) :
          LET got == get_gateio_kline(resp, rows)
          IN  /\ response' = resp
              /\ raised' = got.raised
              /\ kline_df' = got.df
              /\ cal_pc' = IF got.raised = "none" THEN "fetched" ELSE "raised"
    /\ UNCHANGED <<taker_fee, AVE_SIGMA, AVE_ETA>>
    /\ UNCHANGED <<paramVars, quoteVars, logVars, extVars, now, tickVars, last_args>>

\* lines 86-102
CalReturn ==
    /\ cal_pc = "fetched"
    /\ LET v == calculate_historical_volatility(kline_df)
       IN  AVE_SIGMA' = IF TooSmall(v) THEN DEFAULT_SIGMA ELSE v
    /\ AVE_ETA' = estimate_eta_from_fee(taker_fee)
    /\ cal_pc' = "returned"
    /\ UNCHANGED <<taker_fee, response, kline_df, raised>>
    /\ UNCHANGED <<paramVars, quoteVars, logVars, extVars, now, tickVars, last_args>>

\* auto_calculate_params(coin, taker_fee) for any fee rate
CalInit ==
    /\ gamma = AVE_GAMMA * Scale /\ T_end = AVE_T_END * Scale
    /\ sigma = 0 /\ eta = 0 /\ grid_spacing = GRID_SPACING
    /\ InitQuote /\ InitEngine /\ InitTick
    /\ latest_price = 0
    /\ taker_fee \in FeeSet
    /\ cal_pc = "start" /\ response = "none" /\ kline_df = <<>>
    /\ AVE_SIGMA = 0 /\ AVE_ETA = 0 /\ raised = "none"

CalNext == CalFetch \/ CalReturn

CalSpec == CalInit /\ [][CalNext]_vars

\* C6 as claimed: whatever the fetch ends in, auto_calculate_params returns
\* a (sigma, eta) pair and no error leaves it; a failed fetch gives an empty
\* candle table and sigma = 0.005.
C6_NeverRaises ==
    /\ cal_pc # "raised"
    /\ (cal_pc = "returned" /\ response # "ok") =>
          kline_df = <<>> /\ AVE_SIGMA = DEFAULT_SIGMA

\* ------------------------------------------------------------------- claims
\* a quote was computed, from the price QPrice
Quoted == last_args # <<>>

QPrice == last_args[1]

\* C7: whenever the spread formula is undefined (eta = 0, or 1 + gamma/eta
\* is not positive) the quote computation uses delta = grid_spacing * price
\* * 0.5 and logs the fallback; in every other case delta is the formula
\* value; either way best_bid = max(0, reserve_price - delta) and best_ask =
\* max(0, reserve_price + delta).
C7_SpreadFallback ==
    Quoted =>
        LET undefined == eta = 0 \/ Scale + Div(gamma, eta) <= 0
        IN  /\ undefined =>
                /\ delta = TDiv(Mul(grid_spacing, QPrice), 2)
                /\ fallback_logged
            /\ ~undefined =>
                /\ delta = TDiv(Mul(Mul(gamma, Mul(sigma, sigma)), T_end), 2)
                           + Mul(Div(Scale, gamma), Ln(Scale + Div(gamma, eta)))
                /\ ~fallback_logged
            /\ best_bid = Max(0, reserve_price - delta)
            /\ best_ask = Max(0, reserve_price + delta)

\* the fallback taken because the log argument is not positive
C7_Witness == Quoted /\ fallback_logged /\ eta # 0 /\ delta > 0

\* the clamp left both bounds as computed
ClampIdle == reserve_price - delta >= 0 /\ reserve_price + delta >= 0

Ordered ==
    /\ ClampIdle => best_bid <= reserve_price /\ reserve_price <= best_ask
    /\ (reserve_price - delta < 0 /\ best_bid = 0) => best_ask >= reserve_price

\* C8 as claimed: after every quote computation, for any eta, best_bid <=
\* reserve_price <= best_ask when the clamp did not alter the bounds, and
\* best_ask >= reserve_price when the clamp forced best_bid = 0.
C8_OrderingAnyEta == Quoted => Ordered

\* C8, amended: the ordering holds after every quote computation with a
\* price >= 0 and eta >= -gamma (eta > 0, or the fallback); for eta < -gamma
\* the log term is negative and the bounds can be inverted.
C8_Ordering == (Quoted /\ eta >= 0 - gamma) => Ordered

\* the clamp forced best_bid = 0 under a positive eta
C8_Witness ==
    /\ Quoted /\ eta > 0
    /\ reserve_price - delta < 0 /\ best_bid = 0 /\ best_ask > 0

\* C9 as claimed: every quote has reserve_price, best_bid, best_ask and
\* delta >= 0.
C9_AllNonNegative ==
    Quoted => reserve_price >= 0 /\ best_bid >= 0 /\ best_ask >= 0 /\ delta >= 0

\* C9, amended: every quote has best_bid >= 0 and best_ask >= 0; delta >= 0
\* when eta >= -gamma; reserve_price >= 0 when inventory * gamma * sigma^2 *
\* T_end <= price, and only then. reserve_price is not clamped.
C9_NonNegative ==
    Quoted =>
        /\ best_bid >= 0 /\ best_ask >= 0
        /\ eta >= 0 - gamma => delta >= 0
        /\ inventory * Mul(Mul(gamma, Mul(sigma, sigma)), T_end) <= QPrice
              <=> reserve_price >= 0

\* a negative reserve price whose bid was clamped
C9_Witness == Quoted /\ reserve_price < 0 /\ best_bid = 0 /\ delta >= 0

\* the quote is the function of the price, the positions and the parameters
QuoteIsFunction ==
    Quoted =>
        /\ inventory = last_args[2] - last_args[3]
        /\ reserve_price =
              QPrice - inventory * Mul(Mul(gamma, Mul(sigma, sigma)), T_end)
        /\ best_bid = Max(0, reserve_price - delta)
        /\ best_ask = Max(0, reserve_price + delta)
        /\ upper_price_long = best_ask /\ upper_price_short = best_ask
        /\ lower_price_long = best_bid /\ lower_price_short = best_bid
        /\ mid_price_long = reserve_price /\ mid_price_short = reserve_price

\* C10: a quote computation issues no order action and leaves the base
\* engine's state (positions, last order times) and the model parameters
\* unchanged; it rewrites only the quote fields, to values that are a
\* function of the price, the positions and the parameters.
C10_ReadOnly ==
    /\ []QuoteIsFunction
    /\ [][(quoteVars' # quoteVars \/ last_args' # last_args) =>
            /\ UNCHANGED <<long_position, short_position,
                           last_long_order_time, last_short_order_time>>
            /\ UNCHANGED paramVars
            /\ UNCHANGED calls]_vars

\* a quote computed while a position is held
C10_Witness == Quoted /\ last_args[2] > 0 /\ long_position = last_args[2]

\* --------------------------------------------------------- claims on the tick
OrderOps ==
    {"initialize", "cancel_orders_for_side", "place_take_profit_order", "place_order"}

\* the calls of the running tick that act on side s, in order
SideCalls(s) == SelectSeq(calls, LAMBDA c : c.side = s)

SideOrders(s) == SelectSeq(SideCalls(s), LAMBDA c : c.op \in OrderOps)

\* a call on side s raised
Raised(s) == \E i \in DOMAIN calls : calls[i].side = s /\ ~calls[i].ok

\* the running tick is past side s's branch (it returned, or its initialize
\* raised)
BranchDone(s) ==
    IF s = "long"
    THEN pc \in {"short", "done"} \/ (pc = "aborted" /\ calls[1].ok)
    ELSE pc = "done" \/ (pc = "aborted" /\ SideCalls("short") # <<>>)

\* the quote fields the side's orders are priced at
FarPrice(s) == IF s = "long" THEN best_ask ELSE best_bid

NearPrice(s) == IF s = "long" THEN best_bid ELSE best_ask

\* C1: in any tick, a side whose position is over POSITION_THRESHOLD and
\* whose last order is less than ORDER_COOLDOWN_TIME old gets no order
\* action (initialize, cancel, take-profit, opening order) in that tick.
C1_Cooldown ==
    \A s \in Sides :
        (/\ pc # "idle"
         /\ Pos(s) > POSITION_THRESHOLD
         /\ current_time - LastOrderTime(s) < ORDER_COOLDOWN_TIME)
        => SideOrders(s) = <<>>

\* a finished tick that held the short side in cooldown and acted on the long
C1_Witness ==
    /\ pc = "done"
    /\ short_position > POSITION_THRESHOLD
    /\ current_time - last_short_order_time < ORDER_COOLDOWN_TIME
    /\ current_time - last_long_order_time >= ORDER_COOLDOWN_TIME
    /\ long_position > POSITION_THRESHOLD
    /\ SideOrders("long") # <<>>

\* C2 as claimed: a failure raised in the long side's branch, whichever
\* branch it is, is caught and logged, and the tick goes on to the short
\* side: the tick never aborts on it.
C2_LongFailureIsolated ==
    Raised("long") =>
        /\ pc # "aborted"
        /\ \E i \in DOMAIN errors : errors[i] = "long"

\* C3: in a tick where a side's position is over POSITION_THRESHOLD, that
\* side gets no opening order and no cancel; it gets one take-profit order,
\* at the far quote price, exactly when it is not in cooldown and no
\* take-profit order rests on it (and neither the quote computation nor
\* get_take_profit_quantity raised); otherwise it gets nothing.
C3_AboveThreshold ==
    \A s \in Sides :
        (BranchDone(s) /\ Pos(s) > POSITION_THRESHOLD) =>
            LET so == SideOrders(s)
                cool == current_time - LastOrderTime(s) < ORDER_COOLDOWN_TIME
                early == \E i \in DOMAIN calls :
                            /\ calls[i].side = s /\ ~calls[i].ok
                            /\ calls[i].op \in {"update_mid_price", "get_take_profit_quantity"}
            IN  IF ~cool /\ Resting(s) <= 0 /\ ~early
                THEN /\ Len(so) = 1
                     /\ so[1].op = "place_take_profit_order"
                     /\ so[1].price = FarPrice(s)
                     /\ so[1].qty = InitialQuantity(s)
                ELSE so = <<>>

\* a take-profit order placed on the short side over the threshold, and
\* none on the long side because one rests there
C3_Witness ==
    /\ pc = "done"
    /\ short_position > POSITION_THRESHOLD /\ long_position > POSITION_THRESHOLD
    /\ sell_long_orders > 0 /\ buy_short_orders = 0
    /\ current_time - last_long_order_time >= ORDER_COOLDOWN_TIME
    /\ Len(SideOrders("short")) = 1 /\ SideOrders("short")[1].ok
    /\ SideOrders("long") = <<>> /\ ~Raised("long")

\* the calls of the requote, in order
Requote(s) ==
    <<Call("update_mid_price", s, tick_price, 0),
      Call("get_take_profit_quantity", s, 0, Pos(s)),
      Call("cancel_orders_for_side", s, 0, 0),
      Call("place_take_profit_order", s, FarPrice(s), InitialQuantity(s)),
      Call("place_order", s, NearPrice(s), InitialQuantity(s))>>

\* C4: in a tick where a side holds a position below the threshold, the
\* calls made for that side are, in this order: the quote from the tick's
\* latest price, get_take_profit_quantity, the cancel of the side's orders,
\* one take-profit order at the far quote price and one opening order at the
\* near quote price, both sized at the side's initial quantity. A call that
\* raises ends the sequence there, so the cancel always precedes both
\* placements.
C4_Requote ==
    \A s \in Sides :
        (BranchDone(s) /\ Pos(s) > 0 /\ Pos(s) < POSITION_THRESHOLD) =>
            LET sc == SideCalls(s)
            IN  /\ Len(sc) >= 1 /\ Len(sc) <= Len(Requote(s))
                /\ \A i \in DOMAIN sc :
                      /\ [sc[i] EXCEPT !.ok = TRUE] = Requote(s)[i]
                      /\ i < Len(sc) => sc[i].ok
                /\ ~Raised(s) => Len(sc) = Len(Requote(s))

\* a full requote of the short side
C4_Witness ==
    /\ pc = "done"
    /\ short_position > 0 /\ short_position < POSITION_THRESHOLD
    /\ Len(SideCalls("short")) = 5 /\ ~Raised("short")
    /\ SideCalls("short")[5].price > SideCalls("short")[4].price

\* a side without position gets its initialize call and nothing else
OnlyInitialize ==
    \A s \in Sides :
        (pc # "idle" /\ Pos(s) = 0) =>
            LET sc == SideCalls(s)
            IN  /\ \A i \in DOMAIN sc : sc[i].op = "initialize"
                /\ BranchDone(s) => Len(sc) = 1

\* a step of the tick
TickStep == pc # "idle" \/ pc' # "idle"

\* C5 as claimed: a side without position gets only its initialize call,
\* and a tick with both positions 0 leaves the quote fields unchanged.
C5_NoQuoteWhenFlat ==
    /\ []OnlyInitialize
    /\ [][(TickStep /\ long_position = 0 /\ short_position = 0)
            => UNCHANGED quoteVars]_vars

\* C5, amended: a side without position gets only its initialize call; a
\* tick with both positions 0 leaves the quote fields unchanged when
\* latest_price is falsy (None or 0), and otherwise recomputes the quote
\* from latest_price once, at its start.
C5_NoPosition ==
    /\ []OnlyInitialize
    /\ [][(TickStep /\ long_position = 0 /\ short_position = 0) =>
            IF latest_price \in {NoPrice, 0}
            THEN UNCHANGED quoteVars
            ELSE \/ UNCHANGED quoteVars
                 \/ /\ pc = "idle" /\ pc' = "long"
                    /\ inventory' = 0 /\ reserve_price' = latest_price
                    /\ mid_price_long' = latest_price]_vars

\* a finished flat tick: two initialize calls, the quote recomputed
C5_Witness ==
    /\ pc = "done" /\ long_position = 0 /\ short_position = 0
    /\ Len(SideCalls("long")) = 1 /\ Len(SideCalls("short")) = 1
    /\ Len(calls) = 4 /\ calls[2].op = "update_mid_price"
    /\ reserve_price = tick_price /\ tick_price > 0

====
